---- MODULE Spec2Model ----
(***************************************************************************)
(* A model of yt_scribe: the persistence layer of db.py (SQLite tables,    *)
(* the FTS5 external-content indexes and their triggers, store_video,      *)
(* delete_video and the read operations), the embedding codec of db.py     *)
(* (encode / decode) and the caption parser of core.py                     *)
(* (parse_vtt_transcript).                                                 *)
(*                                                                         *)
(* Three specifications share the module: Spec (the store), CodecSpec      *)
(* (encode / decode) and ParseSpec (the parser's scan loop).               *)
(***************************************************************************)
EXTENDS Integers, Sequences, FiniteSets, TLC

VARIABLES db, last, conns, txn,
          values, binary, encoded, decoded,
          lines, pc, i, current_start, current_text, entries, entries_unique,
          text_line, entry_line

concVars == <<conns, txn>>
storeVars == <<db, last, concVars>>
codecVars == <<values, binary, encoded, decoded>>
parseVars == <<lines, pc, i, current_start, current_text, entries,
               entries_unique, text_line, entry_line>>
vars == <<db, last, conns, txn, values, binary, encoded, decoded,
          lines, pc, i, current_start, current_text, entries, entries_unique,
          text_line, entry_line>>

(***************************************************************************)
(* Bounds of the model.                                                    *)
(***************************************************************************)
MaxChunks == 2
MaxChunkId == 4
MaxRowid == 2

(***************************************************************************)
(* Python None / SQL NULL and present values.  A value that may be absent  *)
(* is None or Some(v).                                                     *)
(***************************************************************************)
None == <<>>
Some(v) == <<v>>
Val(o) == o[1]

\* dict.get(key, default)
Get(d, k, default) == IF k \in DOMAIN d THEN d[k] ELSE default

\* `is not None` in place of truthiness: the empty string passes.
TruthyStr_not_none(o) == o # None
\* Python truthiness: None, "" and the empty list or bytes are falsy.
TruthyStr(o) == o # None /\ Val(o) # ""
TruthySeq(o) == o # None /\ Len(Val(o)) > 0

Max(S) == CHOOSE x \in S : \A y \in S : y <= x

(***************************************************************************)
(* VectorCodec: db.encode / db.decode.                                     *)
(*                                                                         *)
(* A value representable as a 32-bit float is modelled by the fields of    *)
(* its IEEE-754 single-precision representation: sign s, biased exponent   *)
(* e (8 bits) and mantissa m (23 bits).  struct.pack("<f") writes the      *)
(* 32-bit pattern s:e:m as four bytes, least significant byte first.       *)
(***************************************************************************)
MaxVec == 2
MaxBytes == 4

BytesPerFloat == 4

F32(s, e, m) == [s |-> s, e |-> e, m |-> m]
\* 0.0, 1.5, -2.0 and the float nearest to 0.1
F32Values == {F32(0, 0, 0), F32(0, 127, 4194304), F32(1, 128, 0),
              F32(0, 123, 5033165)}
ByteValues == {0, 63}

RECURSIVE SeqsUpTo(_, _)
\* All sequences over S of length at most n.
SeqsUpTo(S, n) ==
    IF n = 0 THEN {<<>>}
    ELSE LET shorter == SeqsUpTo(S, n - 1)
         IN  shorter \cup {Append(q, x) : q \in {r \in shorter : Len(r) = n - 1}, x \in S}

\* The bytes of the 32-bit pattern, from the least significant (b0) to the
\* most significant (b3): sign and the high exponent bits share b3, the low
\* exponent bit and the high mantissa bits share b2.
F32Byte(f, k) ==
    CASE k = 0 -> f.m % 256
      [] k = 1 -> (f.m \div 256) % 256
      [] k = 2 -> (f.e % 2) * 128 + f.m \div 65536
      [] k = 3 -> f.s * 128 + f.e \div 2
BytesF32(b0, b1, b2, b3) ==
    F32(b3 \div 128, (b3 % 128) * 2 + b2 \div 128, (b2 % 128) * 65536 + b1 * 256 + b0)

\* "<f": the four bytes of one value, little-endian.
pack_le(f) == <<F32Byte(f, 0), F32Byte(f, 1), F32Byte(f, 2), F32Byte(f, 3)>>
unpack_le(q) == BytesF32(q[1], q[2], q[3], q[4])

RECURSIVE encode_be(_)
\* ">f": the byte order a big-endian format string would give.
encode_be(vs) ==
    IF vs = <<>> THEN <<>>
    ELSE <<F32Byte(Head(vs), 3), F32Byte(Head(vs), 2), F32Byte(Head(vs), 1),
           F32Byte(Head(vs), 0)>> \o encode_be(Tail(vs))

RECURSIVE encode(_)
\* struct.pack("<" + "f" * len(values), *values)
encode(vs) ==
    IF vs = <<>> THEN <<>> ELSE pack_le(Head(vs)) \o encode(Tail(vs))

StructError == [ok |-> FALSE, error |-> "struct.error", value |-> <<>>]
Unpacked(vs) == [ok |-> TRUE, error |-> "", value |-> vs]

\* A decode that reads the whole floats of the buffer and ignores the rest.
decode_lenient(bin) ==
    Unpacked([k \in 1..(Len(bin) \div BytesPerFloat) |->
                 unpack_le(SubSeq(bin, BytesPerFloat * (k - 1) + 1, BytesPerFloat * k))])

\* struct.unpack("<" + "f" * (len(binary) // 4), binary): the format asks
\* for 4 * (len // 4) bytes and unpack raises struct.error on any other
\* buffer length.
decode(bin) ==
    LET n == Len(bin) \div BytesPerFloat
    IN  IF Len(bin) # BytesPerFloat * n
        THEN StructError
        ELSE Unpacked([k \in 1..n |->
                 unpack_le(SubSeq(bin, BytesPerFloat * (k - 1) + 1, BytesPerFloat * k))])

(***************************************************************************)
(* KnowledgeStore: the SQLite database of db.py.                           *)
(*                                                                         *)
(* db is the committed database:                                           *)
(*   videos      the rows of table videos, each with its implicit rowid    *)
(*   details     the rows of table video_details                           *)
(*   seq         sqlite_sequence of video_details (AUTOINCREMENT)          *)
(*   videos_fts  the full-text index of videos_fts: one entry per indexed  *)
(*               document, keyed by the rowid FTS5 gave it                 *)
(*   details_fts the full-text index of video_details_fts                  *)
(* Both FTS5 tables are external-content tables (content=videos,           *)
(* content=video_details): the index stores rowid and terms, and reads     *)
(* the column values of a rowid from the content table.                    *)
(***************************************************************************)
VideoIds == {"V1", "V2"}

\* clock is the time CURRENT_TIMESTAMP reads, in whole seconds.
EmptyDb == [videos |-> {}, details |-> {}, seq |-> 0,
            videos_fts |-> {}, details_fts |-> {}, clock |-> 0]

Rowids(rows) == {r.rowid : r \in rows}
NextRowid(rows) == IF rows = {} THEN 1 ELSE Max(Rowids(rows)) + 1

\* json.dumps / json.loads: the text of a value, and the value of a text.
json_dumps(v) == [json |-> v]
json_loads(t) == t.json

(***************************************************************************)
(* init_db: the triggers.                                                  *)
(***************************************************************************)
\* The document the index holds for a videos row.
VideoDoc(rowid, r) ==
    [rowid |-> rowid, video_id |-> r.video_id, title |-> r.title,
     summary |-> r.summary, tldr |-> r.tldr, tags |-> r.tags,
     full_transcript |-> r.full_transcript]

DetailDoc(rowid, r) ==
    [rowid |-> rowid, chunk_id |-> r.chunk_id, chunk_text |-> r.chunk_text]

\* INSERT INTO videos_fts(video_id, title, ...) VALUES (new. ...): no rowid
\* is given, so FTS5 allots the next rowid of its own.
videos_ai(w, new) ==
    [w EXCEPT !.videos_fts = @ \cup {VideoDoc(NextRowid(@), new)}]

\* DELETE FROM videos_fts WHERE video_id = old.video_id, run AFTER DELETE:
\* the WHERE clause is evaluated over the content table, which no longer
\* holds the old row; the entries of the content rows it finds are removed.
videos_ad(w, old) ==
    LET found == {r.rowid : r \in {x \in w.videos : x.video_id = old.video_id}}
    IN  [w EXCEPT !.videos_fts = {e \in @ : e.rowid \notin found}]

video_details_ai(w, new) ==
    [w EXCEPT !.details_fts = @ \cup {DetailDoc(NextRowid(@), new)}]

video_details_ad(w, old) ==
    LET found == {r.chunk_id : r \in {x \in w.details : x.chunk_id = old.chunk_id}}
    IN  [w EXCEPT !.details_fts = {e \in @ : e.rowid \notin found}]

(***************************************************************************)
(* The SQL statements of store_video and delete_video.  A statement        *)
(* yields [ok, db]: ok is FALSE when it raises sqlite3.IntegrityError.     *)
(***************************************************************************)
Done(w) == [ok |-> TRUE, db |-> w]
Raised(w) == [ok |-> FALSE, db |-> w]

RECURSIVE DeleteDetailRows(_, _)
\* The rows are deleted one by one, video_details_ad firing after each.
DeleteDetailRows(w, rows) ==
    IF rows = {} THEN w
    ELSE LET r == CHOOSE x \in rows : TRUE
         IN  DeleteDetailRows(
                 video_details_ad([w EXCEPT !.details = @ \ {r}], r), rows \ {r})

RECURSIVE DeleteVideoRows(_, _)
DeleteVideoRows(w, rows) ==
    IF rows = {} THEN w
    ELSE LET r == CHOOSE x \in rows : TRUE
         IN  DeleteVideoRows(
                 videos_ad([w EXCEPT !.videos = @ \ {r}], r), rows \ {r})

\* SELECT video_id FROM videos WHERE video_id = ?
SelectVideo(w, video_id) == {r \in w.videos : r.video_id = video_id}

\* The statement left out: the old chunks stay.
DeleteDetails_skipped(w, video_id) == w

\* DELETE FROM video_details WHERE video_id = ?
DeleteDetails(w, video_id) ==
    DeleteDetailRows(w, {r \in w.details : r.video_id = video_id})

\* DELETE FROM videos WHERE video_id = ?; rowcount is the number of rows
\* the statement itself deleted.
DeleteVideos(w, video_id) ==
    LET rows == SelectVideo(w, video_id)
    IN  [db |-> DeleteVideoRows(w, rows), rowcount |-> Cardinality(rows)]

VideoNotNull == {"url", "title", "author", "duration", "upload_date", "summary"}

\* INSERT INTO videos (...) VALUES (?, ...): NOT NULL columns and the
\* primary key are checked, the row takes the next rowid and, for
\* processed_at, which the statement does not name, DEFAULT CURRENT_TIMESTAMP;
\* videos_ai fires.
InsertVideo(w, v) ==
    IF \/ \E c \in VideoNotNull : v[c] = None
       \/ \E r \in w.videos : r.video_id = v.video_id
    THEN Raised(w)
    ELSE LET row == [rowid |-> NextRowid(w.videos), processed_at |-> w.clock] @@ v
         IN  Done(videos_ai([w EXCEPT !.videos = @ \cup {row}], row))

\* INSERT INTO videos_fts(videos_fts) VALUES('rebuild'): the index is
\* discarded and built again from the content table, under its rowids.
RebuildVideosFts(w) ==
    [w EXCEPT !.videos_fts = {VideoDoc(r.rowid, r) : r \in w.videos}]

DetailNotNull == {"chunk_text", "timestamp", "end_timestamp"}

\* chunk_id INTEGER PRIMARY KEY without AUTOINCREMENT: one more than the
\* largest id the table holds now.
InsertDetail_rowid(w, d) ==
    IF \E c \in DetailNotNull : d[c] = None
    THEN Raised(w)
    ELSE LET id == (IF w.details = {} THEN 0
                    ELSE Max({r.chunk_id : r \in w.details})) + 1
             row == [chunk_id |-> id] @@ d
         IN  Done(video_details_ai(
                 [w EXCEPT !.details = @ \cup {row}, !.seq = id], row))

\* INSERT INTO video_details (...) VALUES (?, ...): chunk_id is
\* AUTOINCREMENT, one more than the largest id ever given.
InsertDetail(w, d) ==
    IF \E c \in DetailNotNull : d[c] = None
    THEN Raised(w)
    ELSE LET id == (IF w.details = {} THEN w.seq
                    ELSE Max({w.seq} \cup {r.chunk_id : r \in w.details})) + 1
             row == [chunk_id |-> id] @@ d
         IN  Done(video_details_ai(
                 [w EXCEPT !.details = @ \cup {row}, !.seq = id], row))

(***************************************************************************)
(* store_video                                                             *)
(***************************************************************************)
\* entries_json is left out of the insert: the column stays NULL.
ChunkValues_no_entries(video_id, chunk) ==
    [video_id |-> video_id,
     chunk_text |-> Get(chunk, "text", Some("")),
     embedding |-> IF "embedding" \in DOMAIN chunk /\ TruthySeq(chunk.embedding)
                   THEN Some(encode(Val(chunk.embedding))) ELSE None,
     timestamp |-> Get(chunk, "timestamp", Some(0)),
     end_timestamp |-> Get(chunk, "end_timestamp", Some(0)),
     entries |-> None]

\* The parameters of one video_details insert (lines 231-250).
ChunkValues(video_id, chunk) ==
    [video_id |-> video_id,
     chunk_text |-> Get(chunk, "text", Some("")),
     embedding |-> IF "embedding" \in DOMAIN chunk /\ TruthySeq(chunk.embedding)
                   THEN Some(encode(Val(chunk.embedding))) ELSE None,
     timestamp |-> Get(chunk, "timestamp", Some(0)),
     end_timestamp |-> Get(chunk, "end_timestamp", Some(0)),
     entries |-> IF TruthySeq(Get(chunk, "entries", None))
                 THEN Some(json_dumps(Val(Get(chunk, "entries", Some(<<>>)))))
                 ELSE None]

RECURSIVE InsertChunks(_, _, _, _)
\* for chunk in chunks: ... cursor.execute(INSERT INTO video_details ...).
\* Yields [ok, db, at]: at is the position of the chunk whose insert raised.
InsertChunks(w, video_id, chunks, k) ==
    IF k > Len(chunks) THEN [ok |-> TRUE, db |-> w, at |-> 0]
    ELSE LET r == InsertDetail(w, ChunkValues(video_id, chunks[k]))
         IN  IF r.ok THEN InsertChunks(r.db, video_id, chunks, k + 1)
             ELSE [ok |-> FALSE, db |-> r.db, at |-> k]

\* video_values (lines 178-194).
VideoValues(video_id, metadata, full_transcript, summary) ==
    LET tags == Get(summary, "tags", None)
    IN  [video_id |-> video_id,
         url |-> Get(metadata, "url", Some("")),
         title |-> Get(metadata, "title", Some("Unknown Title")),
         author |-> Get(metadata, "author", Some("Unknown Author")),
         duration |-> Get(metadata, "duration", Some(0)),
         view_count |-> Get(metadata, "view_count", Some(0)),
         upload_date |-> Get(metadata, "upload_date", Some("")),
         video_description |-> Get(metadata, "description", Some("")),
         summary |-> Get(summary, "summary", None),
         tldr |-> Get(summary, "tldr", None),
         tags |-> IF TruthySeq(tags) THEN Some(json_dumps(Val(tags))) ELSE None,
         full_transcript |-> full_transcript]

\* The exception is swallowed and the statements executed so far stay.
CommitPartial(committed, w) == w
\* The tables are restored, the full-text indexes are not.
RollbackTablesOnly(committed, w) ==
    [w EXCEPT !.videos = committed.videos, !.details = committed.details,
              !.seq = committed.seq]

\* An exception leaves the with-block: the connection rolls back to the
\* database as it was committed.
Rollback(committed, w) == committed

Stored(w) == [outcome |-> "ok", failed_at |-> "", failed_chunk |-> 0, db |-> w]
Failed(committed, w, where, k) ==
    [outcome |-> "IntegrityError", failed_at |-> where, failed_chunk |-> k,
     db |-> Rollback(committed, w)]

\* store_video(video_data, summary, chunks) on the committed database d.
store_video(d, video_data, summary, chunks) ==
    LET metadata == Val(Get(video_data, "metadata", None))
        full_transcript == Get(video_data, "transcript", None)
        video_id == Get(metadata, "video_id", None)
    IN  IF ~TruthyStr(video_id)
        THEN [outcome |-> "ValueError", failed_at |-> "video_id", failed_chunk |-> 0,
              db |-> d]
        ELSE
        LET vid == Val(video_id)
            v == VideoValues(vid, metadata, full_transcript, summary)
            existing == SelectVideo(d, vid)
            w1 == IF existing # {}
                  THEN DeleteVideos(DeleteDetails(d, vid), vid).db
                  ELSE d
            ins == InsertVideo(w1, v)
            w2 == IF existing # {} THEN RebuildVideosFts(ins.db) ELSE ins.db
            cs == InsertChunks(w2, vid, chunks, 1)
        IN  IF ~ins.ok THEN Failed(d, ins.db, "video", 0)
            ELSE IF ~cs.ok THEN Failed(d, cs.db, "chunk", cs.at)
            ELSE Stored(cs.db)

(***************************************************************************)
(* delete_video                                                            *)
(***************************************************************************)
\* affected_rows read from the first DELETE instead of the second.
delete_video_rowcount_of_chunks(d, video_id) ==
    LET n == Cardinality({r \in d.details : r.video_id = video_id})
        del == DeleteVideos(DeleteDetails(d, video_id), video_id)
    IN  [result |-> n > 0, db |-> del.db]

\* The video row is deleted and its chunks are left behind.
delete_video_keeps_chunks(d, video_id) ==
    LET del == DeleteVideos(d, video_id)
    IN  [result |-> del.rowcount > 0, db |-> del.db]

delete_video(d, video_id) ==
    LET del == DeleteVideos(DeleteDetails(d, video_id), video_id)
    IN  [result |-> del.rowcount > 0, db |-> del.db]

(***************************************************************************)
(* get_video, get_video_chunks                                             *)
(***************************************************************************)
RECURSIVE OrderByTimestamp_insertion(_)
\* The rows as the table holds them, without ORDER BY timestamp.
OrderByTimestamp_insertion(rows) ==
    IF rows = {} THEN <<>>
    ELSE LET m == CHOOSE x \in rows : \A y \in rows \ {x} : x.chunk_id < y.chunk_id
         IN  <<m>> \o OrderByTimestamp_insertion(rows \ {m})

RECURSIVE OrderByTimestamp(_)
\* ORDER BY timestamp; rows of equal timestamp come in rowid order.
OrderByTimestamp(rows) ==
    IF rows = {} THEN <<>>
    ELSE LET m == CHOOSE x \in rows : \A y \in rows \ {x} :
                      \/ Val(x.timestamp) < Val(y.timestamp)
                      \/ /\ Val(x.timestamp) = Val(y.timestamp)
                         /\ x.chunk_id < y.chunk_id
         IN  <<m>> \o OrderByTimestamp(rows \ {m})

Project(row, cols) == [c \in cols |-> row[c]]

ChunkCols == {"chunk_id", "chunk_text", "timestamp", "end_timestamp", "entries"}

LoadEntries(chunk) ==
    IF chunk.entries # None
    THEN [chunk EXCEPT !.entries = Some(json_loads(Val(@)))] ELSE chunk

\* get_video_chunks(video_id, with_embeddings)
get_video_chunks(d, video_id, with_embeddings) ==
    LET rows == OrderByTimestamp({r \in d.details : r.video_id = video_id})
        cols == IF with_embeddings THEN ChunkCols \cup {"embedding"} ELSE ChunkCols
        Load(r) ==
            LET c == LoadEntries(Project(r, cols))
            IN  IF with_embeddings /\ TruthySeq(c.embedding)
                THEN [c EXCEPT !.embedding = Some(decode(Val(@)).value)] ELSE c
    IN  [k \in 1..Len(rows) |-> Load(rows[k])]

\* get_video(video_id): None, or the row with its chunks.
get_video(d, video_id) ==
    LET found == SelectVideo(d, video_id)
    IN  IF found = {} THEN None
        ELSE LET video == CHOOSE r \in found : TRUE
                 rows == OrderByTimestamp({r \in d.details : r.video_id = video_id})
             IN  Some([video |-> [video EXCEPT !.tags =
                                     IF @ # None THEN Some(json_loads(Val(@))) ELSE @],
                       chunks |-> [k \in 1..Len(rows) |->
                                      LoadEntries(Project(rows[k], ChunkCols))]])

(***************************************************************************)
(* search_videos, search_chunks                                            *)
(*                                                                         *)
(* A query is one word, or the empty string.  MATCH finds the entries of   *)
(* the index that hold the word; ORDER BY rank is the order of bm25, which *)
(* for one word that each document holds once puts the shorter document    *)
(* first, documents of equal length in rowid order.  The columns of a hit  *)
(* are read from the content table under the hit's rowid: FTS5 fails with  *)
(* "database disk image is malformed" when the content table has no such   *)
(* row.  LIMIT ends the scan once limit rows are out.                      *)
(***************************************************************************)
MaxLimit == 2

\* The words the index holds for a value: a text value of the model is one
\* word, a tag list gives one word per tag.
WordsOf(o) == IF o = None THEN {} ELSE {Val(o)}
TagWords(o) ==
    IF o = None THEN {}
    ELSE {json_loads(Val(o))[k] : k \in 1..Len(json_loads(Val(o)))}
VideoDocWords(e) ==
    {e.video_id} \cup WordsOf(e.title) \cup WordsOf(e.summary) \cup WordsOf(e.tldr)
        \cup TagWords(e.tags) \cup WordsOf(e.full_transcript)
\* chunk_id is indexed too: one more word, a number.
DetailDocWords(e) == WordsOf(e.chunk_text)
VideoDocLen(e) == Cardinality(VideoDocWords(e))

RECURSIVE OrderByRank(_)
\* ORDER BY rank over entries of videos_fts.
OrderByRank(hits) ==
    IF hits = {} THEN <<>>
    ELSE LET m == CHOOSE x \in hits : \A y \in hits \ {x} :
                      \/ VideoDocLen(x) < VideoDocLen(y)
                      \/ VideoDocLen(x) = VideoDocLen(y) /\ x.rowid < y.rowid
         IN  <<m>> \o OrderByRank(hits \ {m})

RECURSIVE OrderByRowid(_)
\* ORDER BY rank over entries of video_details_fts: every document has two
\* words, so the order is that of the rowids.
OrderByRowid(hits) ==
    IF hits = {} THEN <<>>
    ELSE LET m == CHOOSE x \in hits : \A y \in hits : x.rowid <= y.rowid
         IN  <<m>> \o OrderByRowid(hits \ {m})

Found(rows) == [outcome |-> "ok", rows |-> rows]
\* sqlite3.OperationalError: fts5: syntax error near ""
SyntaxError == [outcome |-> "OperationalError", rows |-> <<>>]
\* sqlite3.DatabaseError: database disk image is malformed
Malformed == [outcome |-> "DatabaseError", rows |-> <<>>]

VideoCols ==
    {"video_id", "url", "title", "author", "duration", "view_count", "upload_date",
     "video_description", "summary", "tldr", "tags", "full_transcript",
     "processed_at"}

\* if video.get('tags'): video['tags'] = json.loads(video['tags'])
LoadTags(video) ==
    IF video.tags # None THEN [video EXCEPT !.tags = Some(json_loads(Val(@)))]
    ELSE video

RECURSIVE FetchVideos(_, _, _, _, _)
\* SELECT videos.* FROM videos_fts JOIN videos
\*   ON videos_fts.video_id = videos.video_id ... LIMIT ?
FetchVideos(d, hits, k, limit, out) ==
    IF Len(out) >= limit \/ k > Len(hits) THEN Found(out)
    ELSE LET content == {r \in d.videos : r.rowid = hits[k].rowid}
         IN  IF content = {} THEN Malformed
             ELSE LET fts_video_id == (CHOOSE r \in content : TRUE).video_id
                      joined == SelectVideo(d, fts_video_id)
                  IN  FetchVideos(d, hits, k + 1, limit,
                          IF joined = {} THEN out
                          ELSE Append(out, LoadTags(Project(CHOOSE r \in joined : TRUE,
                                                            VideoCols))))

\* search_videos(query, limit)
search_videos(d, query, limit) ==
    IF query = "" THEN SyntaxError
    ELSE FetchVideos(d, OrderByRank({e \in d.videos_fts : query \in VideoDocWords(e)}),
                     1, limit, <<>>)

RECURSIVE FetchChunks(_, _, _, _, _)
\* SELECT vd..., v.title, v.author, v.url FROM video_details_fts
\*   JOIN video_details vd ON video_details_fts.chunk_id = vd.chunk_id
\*   JOIN videos v ON vd.video_id = v.video_id ... LIMIT ?
FetchChunks(d, hits, k, limit, out) ==
    IF Len(out) >= limit \/ k > Len(hits) THEN Found(out)
    ELSE LET content == {r \in d.details : r.chunk_id = hits[k].rowid}
         IN  IF content = {} THEN Malformed
             ELSE LET fts_chunk_id == (CHOOSE r \in content : TRUE).chunk_id
                      vd == CHOOSE r \in d.details : r.chunk_id = fts_chunk_id
                      vs == SelectVideo(d, vd.video_id)
                  IN  FetchChunks(d, hits, k + 1, limit,
                          IF vs = {} THEN out
                          ELSE Append(out,
                                   Project(vd, {"chunk_id", "video_id", "chunk_text",
                                                "timestamp", "end_timestamp"})
                                   @@ Project(CHOOSE v \in vs : TRUE,
                                              {"title", "author", "url"})))

\* search_chunks(query, limit)
search_chunks(d, query, limit) ==
    IF query = "" THEN SyntaxError
    ELSE FetchChunks(d, OrderByRowid({e \in d.details_fts : query \in DetailDocWords(e)}),
                     1, limit, <<>>)

(***************************************************************************)
(* get_all_videos                                                          *)
(***************************************************************************)
RECURSIVE OrderByProcessedAt_ascending(_)
\* ORDER BY processed_at, without DESC.
OrderByProcessedAt_ascending(rows) ==
    IF rows = {} THEN <<>>
    ELSE LET m == CHOOSE x \in rows : \A y \in rows \ {x} :
                      \/ x.processed_at < y.processed_at
                      \/ x.processed_at = y.processed_at /\ x.rowid < y.rowid
         IN  <<m>> \o OrderByProcessedAt_ascending(rows \ {m})

RECURSIVE OrderByProcessedAt(_)
\* ORDER BY processed_at DESC; rows of the same second come in rowid order.
OrderByProcessedAt(rows) ==
    IF rows = {} THEN <<>>
    ELSE LET m == CHOOSE x \in rows : \A y \in rows \ {x} :
                      \/ x.processed_at > y.processed_at
                      \/ x.processed_at = y.processed_at /\ x.rowid < y.rowid
         IN  <<m>> \o OrderByProcessedAt(rows \ {m})

ListCols ==
    {"video_id", "title", "author", "duration", "view_count", "upload_date",
     "summary", "tldr", "tags", "processed_at"}

\* get_all_videos(limit, offset): SELECT ... ORDER BY processed_at DESC
\* LIMIT ? OFFSET ?, tags parsed.
get_all_videos(d, limit, offset) ==
    LET rows == OrderByProcessedAt(d.videos)
        hi == IF offset + limit < Len(rows) THEN offset + limit ELSE Len(rows)
        page == SubSeq(rows, offset + 1, hi)
    IN  [k \in 1..Len(page) |-> LoadTags(Project(page[k], ListCols))]

(***************************************************************************)
(* The calls the model makes: the arguments are drawn from these sets.     *)
(***************************************************************************)
\* metadata.video_id as passed: a known id, the empty string, or no key.
Metadata1(id) == [url |-> Some("u1"), title |-> Some("t1"), author |-> Some("a1"),
                  duration |-> Some(60), upload_date |-> Some("20240101")]
                 @@ id
Metadata2(id) == [title |-> Some("t2"), description |-> Some("about")] @@ id

Summary1 == [summary |-> Some("s1"), tldr |-> Some("d1"), tags |-> Some(<<"g1", "g2">>)]
Summary2 == [summary |-> Some("s2"), tags |-> Some(<<>>)]
\* No summary text: videos.summary is NOT NULL, the video insert raises.
Summary3 == [tldr |-> Some("d3")]

VideoData1(id) == [metadata |-> Some(Metadata1(id)), transcript |-> Some("tr1")]
VideoData2(id) == [metadata |-> Some(Metadata2(id)), transcript |-> Some("tr2")]

IdKeys == {[video_id |-> Some(v)] : v \in VideoIds}
\* An empty video_id, and a metadata dict without the key.
BadIdKeys == {[video_id |-> Some("")], [view_count |-> Some(7)]}

Chunk1 == [text |-> Some("w1"), timestamp |-> Some(10), end_timestamp |-> Some(20),
           embedding |-> Some(<<F32(0, 127, 4194304), F32(1, 128, 0)>>),
           entries |-> Some(<<[start |-> 10, text |-> "w1"]>>)]
Chunk2 == [text |-> Some("w2"), timestamp |-> Some(0), end_timestamp |-> Some(10),
           embedding |-> Some(<<>>), entries |-> Some(<<>>)]
\* text is None: video_details.chunk_text is NOT NULL, the insert raises.
Chunk3 == [text |-> None, timestamp |-> Some(5), end_timestamp |-> Some(6)]

\* n chunks, Chunk1 and Chunk2 in turn: out of timestamp order from the start.
ChunkList(n) == [k \in 1..n |-> IF k % 2 = 1 THEN Chunk1 ELSE Chunk2]
GoodChunkLists == {ChunkList(n) : n \in 0..MaxChunks}
\* The lists in which one chunk's insert raises.
BadChunkLists ==
    UNION {{[ChunkList(n) EXCEPT ![k] = Chunk3] : k \in 1..n} : n \in 1..MaxChunks}

Call(video_data, summary, chunks) ==
    [video_data |-> video_data, summary |-> summary, chunks |-> chunks]

\* The store_video calls of the model.
StoreCalls ==
    {Call(VideoData1(id), Summary1, cl) : id \in IdKeys, cl \in GoodChunkLists}
    \cup {Call(VideoData2(id), Summary2, cl) : id \in IdKeys, cl \in GoodChunkLists}
    \cup {Call(VideoData1(id), Summary1, cl) : id \in IdKeys, cl \in BadChunkLists}
    \cup {Call(VideoData2(id), Summary3, <<Chunk2>>) : id \in IdKeys}
    \cup {Call(VideoData1(id), Summary1, <<Chunk1>>) : id \in BadIdKeys}

ArgVideoId(a) == Get(Val(a.video_data.metadata), "video_id", None)

(***************************************************************************)
(* The connection a call works on: "none" before sqlite3.connect, "open"   *)
(* after it, "closed" once conn.close() ran.  last.conn is its state when  *)
(* the call returns or raises.                                             *)
(***************************************************************************)
Connect == "open"
Close(conn) == "closed"
\* with sqlite3.connect(...) as conn: leaving the block commits, or rolls
\* back when an exception leaves it; it does not close the connection.
WithExit(conn) == conn
\* try: ... finally: conn.close()
Finally(conn) == Close(conn)

(***************************************************************************)
(* The store's specification.  last records the latest call: its           *)
(* arguments, what it returned or raised, and whether the video existed    *)
(* (and with how many chunks) when it was made.                            *)
(***************************************************************************)
NoCall == [op |-> "none", video_id |-> None, args |-> <<>>,
           outcome |-> "", failed_at |-> "", failed_chunk |-> 0,
           result |-> FALSE, existed |-> FALSE, old_chunks |-> 0,
           value |-> <<>>, conn |-> "none"]

(***************************************************************************)
(* Connections that run a call statement by statement (see the concurrent  *)
(* writers below).  conns is what each connection is running, txn the      *)
(* write transaction that is open: its owner and the database as the owner *)
(* sees it.  The calls made in one step leave both alone.                  *)
(***************************************************************************)
NoTxn == [owner |-> None, work |-> EmptyDb]
ConcIdle == conns = <<>> /\ txn = NoTxn

StoreInit ==
    /\ db = EmptyDb
    /\ last = NoCall
    /\ ConcIdle

\* The ids the model lets the database allot stay within the bounds.
WithinBounds(d, chunks) ==
    /\ d.seq + Len(chunks) <= MaxChunkId
    /\ NextRowid(d.videos) <= MaxRowid
    /\ NextRowid(d.videos_fts) <= MaxRowid

ChunksOf(d, video_id) == {c \in d.details : c.video_id = video_id}

\* The arguments are kept for a call that committed.
StoreStep(a) ==
        /\ LET r == store_video(db, a.video_data, a.summary, a.chunks)
               id == ArgVideoId(a)
               before == IF TruthyStr(id) THEN SelectVideo(db, Val(id)) ELSE {}
           IN  /\ db' = r.db
               /\ last' = [op |-> "store", video_id |-> id,
                           args |-> IF r.outcome = "ok" THEN <<a>> ELSE <<>>,
                           outcome |-> r.outcome, failed_at |-> r.failed_at,
                           failed_chunk |-> r.failed_chunk, result |-> FALSE,
                           existed |-> before # {},
                           old_chunks |-> IF before = {} THEN 0
                               ELSE Cardinality(ChunksOf(db, Val(id))),
                           value |-> <<>>,
                           conn |-> IF r.outcome = "ValueError" THEN "none"
                                    ELSE WithExit(Connect)]
        /\ UNCHANGED <<concVars, codecVars, parseVars>>

StoreVideo ==
    \E a \in StoreCalls : WithinBounds(db, a.chunks) /\ StoreStep(a)

DeleteVideo ==
    \E v \in VideoIds :
        /\ LET r == delete_video(db, v)
           IN  /\ db' = r.db
               /\ last' = [op |-> "delete", video_id |-> Some(v), args |-> <<>>,
                           outcome |-> "ok", failed_at |-> "", failed_chunk |-> 0,
                           result |-> r.result,
                           existed |-> SelectVideo(db, v) # {},
                           old_chunks |-> Cardinality(ChunksOf(db, v)),
                           value |-> <<>>, conn |-> Finally(Connect)]
        /\ UNCHANGED <<concVars, codecVars, parseVars>>

CodecIdle ==
    /\ values = <<>> /\ binary = <<>> /\ encoded = None /\ decoded = None
ParseIdle ==
    /\ lines = <<>> /\ pc = "idle" /\ i = 0 /\ current_start = None
    /\ current_text = <<>> /\ entries = <<>> /\ entries_unique = <<>>
    /\ text_line = 0 /\ entry_line = <<>>
StoreIdle == db = EmptyDb /\ last = NoCall /\ ConcIdle

Init == StoreInit /\ CodecIdle /\ ParseIdle
Next == StoreVideo \/ DeleteVideo
Spec == Init /\ [][Next]_vars

(***************************************************************************)
(* The read operations as actions: they leave the database as it is and    *)
(* last records what they returned or raised.                              *)
(***************************************************************************)
\* The queries of the model: words of the stored values, a word no value
\* has, and the empty string.
VideoQueries == {"t1", "t2", "d1", "zz", ""}
ChunkQueries == {"w1", "w2", "zz", ""}
SearchLimits == 1..MaxLimit

Read(op, id, args, outcome, value) ==
    [op |-> op, video_id |-> id, args |-> args, outcome |-> outcome,
     failed_at |-> "", failed_chunk |-> 0, result |-> FALSE,
     existed |-> id # None /\ SelectVideo(db, Val(id)) # {},
     old_chunks |-> IF id = None THEN 0 ELSE Cardinality(ChunksOf(db, Val(id))),
     value |-> value, conn |-> Finally(Connect)]

GetVideo ==
    \E v \in VideoIds :
        /\ last' = Read("get_video", Some(v), <<>>, "ok", get_video(db, v))
        /\ UNCHANGED <<db, concVars, codecVars, parseVars>>

GetVideoChunks ==
    \E v \in VideoIds, with_embeddings \in BOOLEAN :
        /\ last' = Read("get_video_chunks", Some(v), <<with_embeddings>>, "ok",
                        get_video_chunks(db, v, with_embeddings))
        /\ UNCHANGED <<db, concVars, codecVars, parseVars>>

SearchVideos ==
    \E query \in VideoQueries, limit \in SearchLimits :
        /\ LET r == search_videos(db, query, limit)
           IN  last' = Read("search_videos", None, <<query, limit>>, r.outcome, r.rows)
        /\ UNCHANGED <<db, concVars, codecVars, parseVars>>

SearchChunks ==
    \E query \in ChunkQueries, limit \in SearchLimits :
        /\ LET r == search_chunks(db, query, limit)
           IN  last' = Read("search_chunks", None, <<query, limit>>, r.outcome, r.rows)
        /\ UNCHANGED <<db, concVars, codecVars, parseVars>>

QueryNext ==
    \/ StoreVideo \/ DeleteVideo
    \/ GetVideo \/ GetVideoChunks \/ SearchVideos \/ SearchChunks
QuerySpec == Init /\ [][QueryNext]_vars

(***************************************************************************)
(* The codec's specification: a vector and a byte string are chosen, the   *)
(* vector is encoded, and either the encoding or the byte string is        *)
(* decoded.                                                                *)
(***************************************************************************)
CodecInit ==
    /\ values \in SeqsUpTo(F32Values, MaxVec)
    /\ binary \in SeqsUpTo(ByteValues, MaxBytes)
    /\ encoded = None
    /\ decoded = None

Encode ==
    /\ encoded = None
    /\ encoded' = Some(encode(values))
    /\ UNCHANGED <<values, binary, decoded, storeVars, parseVars>>

DecodeEncoded ==
    /\ encoded # None /\ decoded = None
    /\ decoded' = Some([of |-> "encoded", r |-> decode(Val(encoded))])
    /\ UNCHANGED <<values, binary, encoded, storeVars, parseVars>>

DecodeBinary ==
    /\ decoded = None
    /\ decoded' = Some([of |-> "binary", r |-> decode(binary)])
    /\ UNCHANGED <<values, binary, encoded, storeVars, parseVars>>

CodecNext == Encode \/ DecodeEncoded \/ DecodeBinary

CodecSpecInit == CodecInit /\ StoreIdle /\ ParseIdle
CodecSpec == CodecSpecInit /\ [][CodecNext]_vars

(***************************************************************************)
(* CaptionParser: core.parse_vtt_transcript.                               *)
(*                                                                         *)
(* lines is vtt_data.strip().split('\n'), each line as line.strip() sees   *)
(* it: blank, all digits, holding a markup tag <...>, a timing line        *)
(* "h:m:s.mmm --> ..." or text (a sequence of words).  Times are in        *)
(* milliseconds.  The loop variables are those of the function; text_line  *)
(* and entry_line record, for the cue being collected and for each entry   *)
(* appended, the index of the line its first text came from.               *)
(***************************************************************************)
MaxLines == 5

Line(kind, h, m, ms, words) ==
    [kind |-> kind, h |-> h, m |-> m, ms |-> ms, words |-> words]
Blank == Line("blank", 0, 0, 0, <<>>)
Digits == Line("digits", 0, 0, 0, <<"1">>)
Markup == Line("markup", 0, 0, 0, <<"<c>", "Hello", "</c>">>)
Timing(h, m, ms) == Line("timing", h, m, ms, <<>>)
Text(words) == Line("text", 0, 0, 0, words)

T0 == Timing(0, 0, 0)
T2 == Timing(0, 0, 2000)
T4 == Timing(0, 0, 4000)
HelloWorld == Text(<<"Hello", "world">>)
Goodbye == Text(<<"Goodbye">>)

\* "WEBVTT\n\n00:00:00.000 --> 00:00:02.000\nHello world\n\n
\*  00:00:02.000 --> 00:00:04.000\nHello world\n\n
\*  00:00:04.000 --> 00:00:06.000\nGoodbye\n"
ExampleTrack ==
    <<Text(<<"WEBVTT">>), Blank, T0, HelloWorld, Blank, T2, HelloWorld, Blank,
      T4, Goodbye>>
\* Three cues, the third repeating the first.
RepeatTrack ==
    <<Text(<<"WEBVTT">>), Blank, T0, HelloWorld, T2, Goodbye, T4, HelloWorld>>
\* A cue of two lines, one with a numeric identifier, one past the minute.
LongTrack ==
    <<Text(<<"WEBVTT">>), Blank, Digits, Timing(0, 1, 2000), HelloWorld, Goodbye,
      Timing(1, 0, 0), Text(<<"Hello">>), Markup>>

\* "00:00 --> 00:05": not of the form timestamp_pattern matches, so text.
BadTiming == Text(<<"00:00", "-->", "00:05">>)
\* A track whose only timing line is malformed, and a header alone.
MalformedTrack ==
    <<Text(<<"WEBVTT">>), Blank, Digits, BadTiming, HelloWorld, Blank, BadTiming,
      Goodbye>>
HeaderOnly == <<Text(<<"WEBVTT">>)>>

LineValues == {Blank, Digits, Markup, T0, T2, HelloWorld, Goodbye}

\* strip() leaves no blank line at either end; the empty text splits into
\* one empty line.
ParseInputs ==
    {ls \in SeqsUpTo(LineValues, MaxLines) :
        /\ Len(ls) > 0
        /\ (ls[1] = Blank \/ ls[Len(ls)] = Blank) => ls = <<Blank>>}
    \cup {ExampleTrack, RepeatTrack, LongTrack, MalformedTrack, HeaderOnly}

\* line.strip() == "", line.isdigit(), html_tag_pattern.search(line),
\* timestamp_pattern.match(line)
IsEmpty(l) == l.kind = "blank"
IsDigit(l) == l.kind = "digits"
\* The tag test left out of line 144.
HasTag_never(l) == FALSE
HasTag(l) == l.kind = "markup"
IsTimestamp(l) == l.kind = "timing"

\* float(h) * 3600 + float(m) * 60 + float(s)
StartOf(l) == l.h * 3600000 + l.m * 60000 + l.ms

RECURSIVE Join(_)
\* ' '.join(current_text).strip()
Join(texts) == IF texts = <<>> THEN <<>> ELSE Head(texts) \o Join(Tail(texts))

\* start_idx: one past the first blank line, the first line if there is none
\* (StartIdx_first: the loop of lines 134-137 left out).
StartIdx_first(ls) == 1
StartIdx(ls) ==
    IF \E k \in 1..Len(ls) : IsEmpty(ls[k])
    THEN (CHOOSE k \in 1..Len(ls) : IsEmpty(ls[k]) /\ \A j \in 1..(k - 1) : ~IsEmpty(ls[j])) + 1
    ELSE 1

Entry(start, text) == [start |-> start, text |-> text]

\* entries.index(d)
Index(es, d) == CHOOSE k \in 1..Len(es) : es[k] = d /\ \A j \in 1..(k - 1) : es[j] # d

\* The values of {d['text']: d for d in kept}: one per text, in the order
\* the texts first come, each the last d that has the text.
DictValues(kept) ==
    LET firsts == {k \in 1..Len(kept) : \A j \in 1..(k - 1) : kept[j].text # kept[k].text}
        LastOf(t) == kept[Max({k \in 1..Len(kept) : kept[k].text = t})]
        Rank(k) == Cardinality({j \in firsts : j <= k})
    IN  [n \in 1..Cardinality(firsts) |->
            LastOf(kept[CHOOSE k \in firsts : Rank(k) = n].text)]

\* Line 187 without its filter.
Deduplicate_unfiltered(es) == DictValues(es)

\* The unique entries collected in a set: their order is lost (here, reversed).
Deduplicate_unordered(es) ==
    LET Keep(d) == \A j \in 1..(Index(es, d) - 1) : es[j].text # d.text
        kept == DictValues(SelectSeq(es, Keep))
    IN  [n \in 1..Len(kept) |-> kept[Len(kept) + 1 - n]]

\* Line 187: an entry is kept when no entry before its first equal has its
\* text; the kept entries then go through a dict keyed by text.
Deduplicate(es) ==
    LET Keep(d) == \A j \in 1..(Index(es, d) - 1) : es[j].text # d.text
    IN  DictValues(SelectSeq(es, Keep))

ParseInit ==
    /\ lines \in ParseInputs
    /\ pc = "header"
    /\ i = 0
    /\ current_start = None
    /\ current_text = <<>>
    /\ entries = <<>>
    /\ entries_unique = <<>>
    /\ text_line = 0
    /\ entry_line = <<>>

\* Lines 133-139.
SkipHeader ==
    /\ pc = "header"
    /\ i' = StartIdx(lines)
    /\ pc' = "scan"
    /\ UNCHANGED <<lines, current_start, current_text, entries, entries_unique,
                   text_line, entry_line, storeVars, codecVars>>

\* Lines 143-146: empty lines, numeric identifiers, lines with tags.
SkipLine ==
    /\ pc = "scan" /\ i <= Len(lines)
    /\ IsEmpty(lines[i]) \/ IsDigit(lines[i]) \/ HasTag(lines[i])
    /\ i' = i + 1
    /\ UNCHANGED <<lines, pc, current_start, current_text, entries, entries_unique,
                   text_line, entry_line, storeVars, codecVars>>

\* if not current_start: taken for None and for 0.0
StartUnset(start) == start = None \/ Val(start) = 0
\* if current_start is None
StartIsNone(start) == start = None

\* Lines 149-166: a timing line.
TimingLine ==
    /\ pc = "scan" /\ i <= Len(lines)
    /\ ~(IsEmpty(lines[i]) \/ IsDigit(lines[i]) \/ HasTag(lines[i]))
    /\ IsTimestamp(lines[i])
    /\ LET flush == current_start # None /\ current_text # <<>>
           start1 == IF flush THEN None ELSE current_start
       IN  /\ entries' = IF flush
                         THEN Append(entries, Entry(Val(current_start), Join(current_text)))
                         ELSE entries
           /\ entry_line' = IF flush THEN Append(entry_line, text_line) ELSE entry_line
           /\ current_text' = IF flush THEN <<>> ELSE current_text
           /\ text_line' = IF flush THEN 0 ELSE text_line
           /\ current_start' = IF StartUnset(start1) THEN Some(StartOf(lines[i]))
                               ELSE start1
    /\ i' = i + 1
    /\ UNCHANGED <<lines, pc, entries_unique, storeVars, codecVars>>

\* Lines 167-175: text of the open cue; a line equal to the text of the
\* last entry is not collected.
TextLine ==
    /\ pc = "scan" /\ i <= Len(lines)
    /\ ~(IsEmpty(lines[i]) \/ IsDigit(lines[i]) \/ HasTag(lines[i]))
    /\ ~IsTimestamp(lines[i])
    /\ current_start # None
    /\ IF entries # <<>> /\ entries[Len(entries)].text = lines[i].words
       THEN UNCHANGED <<current_text, text_line>>
       ELSE /\ current_text' = Append(current_text, lines[i].words)
            /\ text_line' = IF current_text = <<>> THEN i ELSE text_line
    /\ i' = i + 1
    /\ UNCHANGED <<lines, pc, current_start, entries, entries_unique, entry_line,
                   storeVars, codecVars>>

\* The else branch without its i += 1.
StrayLine_stuck ==
    /\ pc = "scan" /\ i <= Len(lines)
    /\ ~(IsEmpty(lines[i]) \/ IsDigit(lines[i]) \/ HasTag(lines[i]))
    /\ ~IsTimestamp(lines[i])
    /\ current_start = None
    /\ text_line' = i
    /\ UNCHANGED <<lines, pc, i, current_start, current_text, entries, entries_unique,
                   entry_line, storeVars, codecVars>>

\* Lines 176-178: text before any timing line.
StrayLine ==
    /\ pc = "scan" /\ i <= Len(lines)
    /\ ~(IsEmpty(lines[i]) \/ IsDigit(lines[i]) \/ HasTag(lines[i]))
    /\ ~IsTimestamp(lines[i])
    /\ current_start = None
    /\ i' = i + 1
    /\ UNCHANGED <<lines, pc, current_start, current_text, entries, entries_unique,
                   text_line, entry_line, storeVars, codecVars>>

\* Lines 180-188: the last entry, the deduplication, the return.
Return ==
    /\ pc = "scan" /\ i > Len(lines)
    /\ LET flush == current_start # None /\ current_text # <<>>
           all == IF flush
                  THEN Append(entries, Entry(Val(current_start), Join(current_text)))
                  ELSE entries
       IN  /\ entries' = all
           /\ entry_line' = IF flush THEN Append(entry_line, text_line) ELSE entry_line
           /\ entries_unique' = Deduplicate(all)
    /\ pc' = "done"
    /\ UNCHANGED <<lines, i, current_start, current_text, text_line,
                   storeVars, codecVars>>

ParseNext == SkipHeader \/ SkipLine \/ TimingLine \/ TextLine \/ StrayLine \/ Return

ParseSpecInit == ParseInit /\ StoreIdle /\ CodecIdle
ParseSpec == ParseSpecInit /\ [][ParseNext]_vars

(***************************************************************************)
(* Properties of the store.                                                *)
(***************************************************************************)
LastId == Val(last.video_id)
LastArgs == last.args[1]

RECURSIVE OrderByChunkId(_)
OrderByChunkId(rows) ==
    IF rows = {} THEN <<>>
    ELSE LET m == CHOOSE x \in rows : \A y \in rows : x.chunk_id <= y.chunk_id
         IN  <<m>> \o OrderByChunkId(rows \ {m})

\* The row and the chunk rows a committed store_video call asks for.
RowAsked(a, video_id) ==
    VideoValues(video_id, Val(a.video_data.metadata), a.video_data.transcript, a.summary)
ChunkAsked(a, video_id, k) == ChunkValues(video_id, a.chunks[k])

\* C1: upsert is a full replace.  Whenever store_video commits for an id V
\* (in particular when V was already stored), the store then holds exactly
\* one video row for V, every column of it is the one of this call, V has
\* exactly the chunks of this call, in the order given, and no chunk row V
\* had before the call is left.
C1_UpsertIsFullReplace ==
    [][(last'.op = "store" /\ last'.outcome = "ok") =>
        LET V == Val(last'.video_id)
            a == last'.args[1]
            rows == SelectVideo(db', V)
            now == OrderByChunkId(ChunksOf(db', V))
        IN  /\ Cardinality(rows) = 1
            /\ \A r \in rows : \A c \in DOMAIN RowAsked(a, V) : r[c] = RowAsked(a, V)[c]
            /\ Len(get_video_chunks(db', V, FALSE)) = Len(a.chunks)
            /\ Len(now) = Len(a.chunks)
            /\ \A k \in 1..Len(now) :
                 \A c \in DOMAIN ChunkAsked(a, V, k) : now[k][c] = ChunkAsked(a, V, k)[c]
            /\ \A c \in ChunksOf(db', V) :
                 c.chunk_id \notin {x.chunk_id : x \in db.details}
      ]_vars

\* A video stored with two chunks has just been stored again, with other
\* metadata and one chunk.
C1_Witness ==
    /\ last.op = "store" /\ last.outcome = "ok" /\ last.existed
    /\ last.old_chunks = 2 /\ Len(LastArgs.chunks) = 1
    /\ LastArgs.summary = Summary2
    /\ \E e \in db.details_fts : e.chunk_text = Some("w2")

\* C2: store_video is atomic for a new video.  When store_video for an id
\* that has no video row raises at a chunk insert, then afterwards
\* get_video finds nothing, get_video_chunks is empty, and both full-text
\* indexes are as they were before the call.
C2_FailedNewStoreLeavesNoTrace ==
    [][(/\ last'.op = "store" /\ last'.outcome = "IntegrityError"
        /\ last'.failed_at = "chunk" /\ ~last'.existed) =>
        LET V == Val(last'.video_id)
        IN  /\ get_video(db', V) = None
            /\ get_video_chunks(db', V, FALSE) = <<>>
            /\ ChunksOf(db', V) = {}
            /\ db'.videos_fts = db.videos_fts
            /\ db'.details_fts = db.details_fts
      ]_vars

\* store_video for a new id has just raised at its second chunk, after the
\* video row and the first chunk were inserted.
C2_Witness ==
    /\ last.op = "store" /\ last.outcome = "IntegrityError"
    /\ last.failed_at = "chunk" /\ last.failed_chunk = 2 /\ ~last.existed
    /\ db.videos # {}

\* C3: a failed re-store leaves the prior state intact.  When store_video
\* for an id that has a video row raises (at the video insert or at a chunk
\* insert), the video row, the chunk rows of that id and both full-text
\* indexes are afterwards exactly what they were before the call.
C3_FailedRestoreKeepsPriorState ==
    [][(last'.op = "store" /\ last'.outcome = "IntegrityError" /\ last'.existed) =>
        LET V == Val(last'.video_id)
        IN  /\ SelectVideo(db', V) = SelectVideo(db, V)
            /\ SelectVideo(db', V) # {}
            /\ ChunksOf(db', V) = ChunksOf(db, V)
            /\ db'.videos_fts = db.videos_fts
            /\ db'.details_fts = db.details_fts
      ]_vars

\* store_video for a stored video with two chunks has just raised at its
\* second chunk, after the old rows were deleted.
C3_Witness ==
    /\ last.op = "store" /\ last.outcome = "IntegrityError" /\ last.existed
    /\ last.failed_at = "chunk" /\ last.failed_chunk = 2 /\ last.old_chunks = 2
    /\ Cardinality(ChunksOf(db, LastId)) = 2

\* C4: the indexes mirror the tables.  In every committed state the video
\* index has an entry for exactly the rows of videos, carrying the row's
\* current columns, and the chunk index has an entry for exactly the rows
\* of video_details, carrying the row's current text.
C4_IndexMirrorsTables ==
    /\ db.videos_fts = {VideoDoc(r.rowid, r) : r \in db.videos}
    /\ db.details_fts = {DetailDoc(r.chunk_id, r) : r \in db.details}

\* C5: delete_video returns whether a video row existed.  On an id with no
\* video row it returns False and changes nothing; on an id with a video
\* row it returns True and get_video then finds nothing; a delete of the
\* same id right after a delete that returned True returns False.
C5_DeleteReturnsExistence ==
    [][(last'.op = "delete") =>
        LET V == Val(last'.video_id)
        IN  /\ last'.result = (SelectVideo(db, V) # {})
            /\ ~last'.result => db' = db
            /\ last'.result => get_video(db', V) = None
            /\ (last.op = "delete" /\ last.video_id = last'.video_id /\ last.result)
                   => ~last'.result
      ]_vars

\* delete_video has just returned True for a video that had no chunks.
C5_Witness ==
    /\ last.op = "delete" /\ last.result /\ last.existed /\ last.old_chunks = 0
    /\ get_video(db, LastId) = None

\* C6: no chunk outlives or precedes its video.  In every committed state
\* every chunk row carries the id of an existing video row, and right after
\* delete_video(V) get_video_chunks(V) is empty.
C6_ChunksHaveTheirVideo ==
    /\ \A c \in db.details : \E v \in db.videos : v.video_id = c.video_id
    /\ last.op = "delete" => get_video_chunks(db, LastId, FALSE) = <<>>

\* A video with chunks has just been deleted while another video keeps its
\* chunks.
C6_Witness ==
    /\ last.op = "delete" /\ last.result /\ last.old_chunks > 0
    /\ db.details # {}

(***************************************************************************)
(* Properties of the codec.                                                *)
(***************************************************************************)
\* C7: codec round trip.  For every sequence v of 32-bit float values, the
\* empty one included, decode(encode(v)) succeeds and yields the same
\* values, in the same order and of the same length.
C7_CodecRoundTrip ==
    (decoded # None /\ Val(decoded).of = "encoded") =>
        /\ Val(decoded).r.ok
        /\ Len(Val(decoded).r.value) = Len(values)
        /\ Val(decoded).r.value = values

\* The encoding of two different values has been decoded.
C7_Witness ==
    /\ decoded # None /\ Val(decoded).of = "encoded"
    /\ Len(values) = 2 /\ values[1] # values[2]
    /\ Val(decoded).r.value = values

\* C8: decode raises for every byte string whose length is not a multiple
\* of 4 and yields no vector; for a byte string of 4n bytes it yields
\* exactly n values; encode of n values yields exactly 4n bytes, the k-th
\* value at bytes 4k-3..4k (no header, no length prefix).
C8_CodecLengths ==
    /\ (decoded # None /\ Val(decoded).of = "binary") =>
          IF Len(binary) % 4 # 0
          THEN ~Val(decoded).r.ok /\ Val(decoded).r.value = <<>>
          ELSE Val(decoded).r.ok /\ 4 * Len(Val(decoded).r.value) = Len(binary)
    /\ encoded # None =>
          /\ Len(Val(encoded)) = 4 * Len(values)
          /\ \A k \in 1..Len(values) :
                SubSeq(Val(encoded), 4 * k - 3, 4 * k) = encode(<<values[k]>>)

\* A byte string of three bytes has been handed to decode, which raised.
C8_Witness ==
    /\ decoded # None /\ Val(decoded).of = "binary"
    /\ Len(binary) = 3 /\ ~Val(decoded).r.ok

(***************************************************************************)
(* Properties of the parser.                                               *)
(***************************************************************************)
\* The index in entries of the cue that survives as entries_unique[n]: the
\* first entry with its text.
Survivor(n) ==
    CHOOSE k \in 1..Len(entries) :
        /\ entries[k].text = entries_unique[n].text
        /\ \A j \in 1..(k - 1) : entries[j].text # entries[k].text

\* The timing line directly before line j: the last one before it.
OwnTimingLine(j) ==
    lines[Max({t \in StartIdx(lines)..(j - 1) : lines[t].kind = "timing"})]

\* C9: every cue parse returns carries the start time of its own timing
\* line, the timing line directly before the cue's text, converted as
\* H*3600 + M*60 + S, also when the cue before it contributed no text; and
\* the example track yields exactly [(0.0, "Hello world"), (4.0, "Goodbye")].
C9_CueCarriesOwnStart ==
    pc = "done" =>
        /\ \A n \in 1..Len(entries_unique) :
              LET own == OwnTimingLine(entry_line[Survivor(n)])
              IN  entries_unique[n].start
                      = (own.h * 3600 + own.m * 60) * 1000 + own.ms
        /\ lines = ExampleTrack =>
              entries_unique = <<Entry(0, <<"Hello", "world">>),
                                 Entry(4000, <<"Goodbye">>)>>

\* C10: parser deduplication.  No two cues of the result have the same
\* text; the result is the sequence of entries with every entry dropped
\* whose text an earlier entry has (anywhere earlier), so the survivor of a
\* text is its first entry, with that entry's start time.
C10_ParserDedup ==
    pc = "done" =>
        /\ \A p, q \in 1..Len(entries_unique) :
              p # q => entries_unique[p].text # entries_unique[q].text
        /\ {u.text : u \in {entries_unique[n] : n \in 1..Len(entries_unique)}}
              = {e.text : e \in {entries[k] : k \in 1..Len(entries)}}
        /\ \A n \in 1..Len(entries_unique) : entries_unique[n] = entries[Survivor(n)]
        /\ \A p, q \in 1..Len(entries_unique) : p < q => Survivor(p) < Survivor(q)

\* Three cues were collected, the third with the text of the first and a
\* later start; the result holds the first two.
C10_Witness ==
    /\ pc = "done" /\ Len(entries) = 3 /\ Len(entries_unique) = 2
    /\ entries[3].text = entries[1].text /\ entries[2].text # entries[1].text
    /\ entries[3].start # entries[1].start
    /\ entries_unique[1] = entries[1]

\* The index of the timing line directly before line j.
TimingIndex(j) ==
    Max({t \in StartIdx(lines)..(j - 1) : lines[t].kind = "timing"})

\* The timing lines the scan reads come with non-decreasing start times.
TimingsAscend ==
    \A s, t \in StartIdx(lines)..Len(lines) :
        (s < t /\ IsTimestamp(lines[s]) /\ IsTimestamp(lines[t]))
            => StartOf(lines[s]) <= StartOf(lines[t])

\* The cues of the result come in the order of their timing lines.
InTrackOrder ==
    \A p, q \in 1..Len(entries_unique) :
        p < q => TimingIndex(entry_line[Survivor(p)])
                     < TimingIndex(entry_line[Survivor(q)])

\* C11 as stated: the cues parse returns come in the order of their timing
\* lines in the track, and their start times are non-decreasing along the
\* returned sequence.
C11_OrderedAndAscending ==
    pc = "done" =>
        /\ InTrackOrder
        /\ \A p, q \in 1..Len(entries_unique) :
              p < q => entries_unique[p].start <= entries_unique[q].start

\* C11 amended: the cues parse returns come in the order of their timing
\* lines in the track; their start times are non-decreasing along the
\* returned sequence whenever the start times of the track's timing lines
\* are non-decreasing.
C11_OrderedAsTrack ==
    pc = "done" =>
        /\ InTrackOrder
        /\ TimingsAscend =>
              \A p, q \in 1..Len(entries_unique) :
                  p < q => entries_unique[p].start <= entries_unique[q].start

\* A track with ascending timing lines has yielded two cues, the second
\* later than the first, after a repeated cue was dropped.
C11_Witness ==
    /\ pc = "done" /\ TimingsAscend /\ Len(entries_unique) = 2
    /\ entries_unique[1].start < entries_unique[2].start
    /\ Len(entries) > Len(entries_unique)

\* The words of a line that are not markup tags: "<c>" and "</c>" are the
\* tags of the model's lines.
Strip(words) ==
    LET NotTag(w) == w \notin {"<c>", "</c>"}
    IN  SelectSeq(words, NotTag)

\* text has the words of part somewhere in it, in a row.
Contains(text, part) ==
    \E a \in 1..(Len(text) - Len(part) + 1) :
        SubSeq(text, a, a + Len(part) - 1) = part

\* The line after the lines of the cue whose timing line is line t: the
\* next timing line, or the end of the track.
CueEnd(t) ==
    IF \E u \in (t + 1)..Len(lines) : IsTimestamp(lines[u])
    THEN CHOOSE u \in (t + 1)..Len(lines) :
             /\ IsTimestamp(lines[u])
             /\ \A x \in (t + 1)..(u - 1) : ~IsTimestamp(lines[x])
    ELSE Len(lines) + 1

RECURSIVE SpanText(_, _, _)
\* The words of the lines j..hi - 1 that are text without a tag and do not
\* repeat prev, the text of the entry before (None: there is none).
SpanText(j, hi, prev) ==
    IF j >= hi THEN <<>>
    ELSE (IF lines[j].kind = "text" /\ Some(lines[j].words) # prev
          THEN lines[j].words ELSE <<>>) \o SpanText(j + 1, hi, prev)

OneLinePerStep ==
    /\ (pc = "scan" /\ pc' = "scan") => (i <= Len(lines) /\ i' = i + 1)
    /\ (pc = "scan" /\ i > Len(lines)) => pc' = "done"
    /\ pc = "done" => pc' = "done"

\* C13: parse is total.  For every input (empty, a header alone, without a
\* timing line, with malformed timing lines) the scan is never stuck before
\* it returns, each step of it consumes one line, i never passes the end of
\* the lines by more than one, and it returns a list; when the input has no
\* well-formed timing line the list returned is empty.
C13_ParseIsTotal ==
    /\ [](pc # "done" => ENABLED ParseNext)
    /\ [](pc = "scan" => i \in StartIdx(lines)..(Len(lines) + 1))
    /\ [][OneLinePerStep]_vars
    /\ []((pc = "done" /\ \A j \in 1..Len(lines) : ~IsTimestamp(lines[j]))
            => (entries = <<>> /\ entries_unique = <<>>))

\* parse has returned for the track whose timing lines are all malformed,
\* after reading every line of it.
C13_Witness ==
    /\ pc = "done" /\ lines = MalformedTrack /\ i = Len(lines) + 1
    /\ entries_unique = <<>>

\* vtt_data.strip().split('\n'), line by line: the blank lines at both ends
\* of the input go; of an input that is all blank one empty line is left.
MaxPad == 1
RECURSIVE LStrip(_)
LStrip(ls) == IF ls # <<>> /\ IsEmpty(Head(ls)) THEN LStrip(Tail(ls)) ELSE ls
Reversed(ls) == [k \in 1..Len(ls) |-> ls[Len(ls) + 1 - k]]
StripSplit(raw) ==
    LET s == Reversed(LStrip(Reversed(LStrip(raw))))
    IN  IF s = <<>> THEN <<Blank>> ELSE s
Blanks(n) == [k \in 1..n |-> Blank]
\* The inputs that parse reads as ls, and the number of lines an input
\* loses at its head.
InputsOf(ls) ==
    {raw \in {Blanks(a) \o ls \o Blanks(b) : a, b \in 0..MaxPad} : StripSplit(raw) = ls}
Lead(raw) == Len(raw) - Len(LStrip(raw))

HasBlank(ls) == \E k \in 1..Len(ls) : IsEmpty(ls[k])
FirstBlank(ls) == CHOOSE k \in 1..Len(ls) : IsEmpty(ls[k]) /\ \A j \in 1..(k - 1) : ~IsEmpty(ls[j])

\* Scanning is past line b, and every cue, appended or being collected,
\* has its text from lines after b.
ScansAfter(b) ==
    /\ i > b
    /\ \A k \in 1..Len(entry_line) : entry_line[k] > b
    /\ current_text # <<>> => text_line > b

\* C26 as stated, of the input as it is passed: when the input has a blank
\* line, no line up to the first one produces a cue.
C26_PreambleDiscarded ==
    \A raw \in InputsOf(lines) :
        HasBlank(raw) =>
            \A k \in 1..Len(entry_line) : entry_line[k] + Lead(raw) > FirstBlank(raw)

\* The header skip ends one past the first blank line left after the
\* strip, or at the first line when none is left, with no cue open.
C26_SkipStep ==
    pc = "header" =>
        /\ pc' = "scan"
        /\ i' = IF HasBlank(lines) THEN FirstBlank(lines) + 1 ELSE 1
        /\ current_start' = None /\ current_text' = <<>> /\ entries' = <<>>

\* C26: header skip.  parse strips the blank lines at both ends of the
\* input and then discards every line up to the first blank line left: no
\* line before it, not even a well-formed timing line and the text after
\* it, produces a cue, and cue scanning starts only after it.  When no
\* blank line is left, scanning starts at the first line.
C26_HeaderSkipped ==
    /\ [][C26_SkipStep]_vars
    /\ []((pc # "header" /\ HasBlank(lines)) => ScansAfter(FirstBlank(lines)))

\* parse has returned for a track whose preamble holds a timing line and
\* a text line: the only cue is the one after the blank line.
C26_Witness ==
    /\ pc = "done"
    /\ lines = <<T0, HelloWorld, Blank, T2, Goodbye>>
    /\ entries_unique = <<Entry(2000, <<"Goodbye">>)>>

(***************************************************************************)
(* Properties of the searches.                                             *)
(***************************************************************************)
\* The result row of a stored video, and of a stored chunk with its video.
VideoResult(r) == LoadTags(Project(r, VideoCols))
ChunkResult(c, v) ==
    Project(c, {"chunk_id", "video_id", "chunk_text", "timestamp", "end_timestamp"})
        @@ Project(v, {"title", "author", "url"})

\* The stored videos whose title, summary, tldr, tags or full_transcript
\* has the word t, and the stored chunks whose text has it.
VideosWith(t) ==
    {r \in db.videos :
        t \in WordsOf(r.title) \cup WordsOf(r.summary) \cup WordsOf(r.tldr)
                \cup TagWords(r.tags) \cup WordsOf(r.full_transcript)}
ChunksWith(t) == {c \in db.details : t \in WordsOf(c.chunk_text)}

\* C14: lexical video search reflects the current store.  After any
\* committed stores and deletes, search_videos(t, limit) for a word t
\* returns at most limit results, each a currently stored video whose
\* current title, summary, tldr, tags or full_transcript has t, and all of
\* them when they are at most limit: never a deleted video, never a video
\* matched by the words of a deleted one.
C14_SearchVideosReflectsStore ==
    (last.op = "search_videos" /\ last.args[1] # "") =>
        LET t == last.args[1]
            limit == last.args[2]
            rows == last.value
        IN  /\ last.outcome = "ok"
            /\ Len(rows) <= limit
            /\ \A k \in 1..Len(rows) : \E r \in VideosWith(t) : rows[k] = VideoResult(r)
            /\ Cardinality(VideosWith(t)) <= limit =>
                  \A r \in VideosWith(t) : \E k \in 1..Len(rows) : rows[k] = VideoResult(r)

\* C15: lexical chunk search reflects the current store.  Every result of
\* search_chunks(t, limit) is a currently stored chunk whose text has t,
\* joined with the title, author and url of its current video; chunks of a
\* deleted video or of a replaced version are never returned, and every
\* matching chunk is returned when they are at most limit.
C15_SearchChunksReflectsStore ==
    (last.op = "search_chunks" /\ last.args[1] # "") =>
        LET t == last.args[1]
            limit == last.args[2]
            rows == last.value
            Result(c) == ChunkResult(c, CHOOSE v \in db.videos : v.video_id = c.video_id)
        IN  /\ last.outcome = "ok"
            /\ \A k \in 1..Len(rows) : \E c \in ChunksWith(t) : rows[k] = Result(c)
            /\ Cardinality(ChunksWith(t)) <= limit =>
                  \A c \in ChunksWith(t) : \E k \in 1..Len(rows) : rows[k] = Result(c)

\* C16: search failure semantics.  search_videos and search_chunks with an
\* empty term return an empty list and raise nothing, and any search
\* against a store with no videos returns an empty list.
C16_SearchFailureSemantics ==
    last.op \in {"search_videos", "search_chunks"} =>
        /\ last.args[1] = "" => (last.outcome = "ok" /\ last.value = <<>>)
        /\ db.videos = {} => (last.outcome = "ok" /\ last.value = <<>>)

(***************************************************************************)
(* Semantic search: find_similar_chunks, which db.py holds as commented-   *)
(* out source (lines 473-531); the operator follows that text.             *)
(*                                                                         *)
(* The vectors of this part have the components -1.0, 0.0, 0.5 and 1.0, so *)
(* that products and sums are exact; a similarity is kept in quarters.     *)
(***************************************************************************)
MaxSimChunks == 3

One == F32(0, 127, 0)
Zero == F32(0, 0, 0)
SimVectors ==
    LET MinusOne == F32(1, 127, 0)
        Half == F32(0, 126, 0)
    IN  {<<One, Zero>>, <<Zero, One>>, <<MinusOne, Zero>>, <<Half, Half>>}

\* Twice the number a float32 stands for, for exponents 126..128 (and 0.0).
Halves(f) ==
    IF f.e = 0 THEN 0
    ELSE (IF f.s = 1 THEN 0 - 1 ELSE 1)
         * CASE f.e = 126 -> (8388608 + f.m) \div 8388608
             [] f.e = 127 -> (8388608 + f.m) \div 4194304
             [] f.e = 128 -> (8388608 + f.m) \div 2097152

RECURSIVE Dot(_, _)
\* sum(a * b for a, b in zip(embedding, chunk_vector))
Dot(a, b) ==
    IF a = <<>> \/ b = <<>> THEN 0
    ELSE Halves(Head(a)) * Halves(Head(b)) + Dot(Tail(a), Tail(b))

RemoveAt(q, k) == SubSeq(q, 1, k - 1) \o SubSeq(q, k + 1, Len(q))

RECURSIVE SortBySimilarity_ascending(_)
\* results.sort(key=...) without reverse=True.
SortBySimilarity_ascending(rs) ==
    IF rs = <<>> THEN <<>>
    ELSE LET k == CHOOSE k \in 1..Len(rs) :
                      /\ \A j \in 1..Len(rs) : rs[k].similarity <= rs[j].similarity
                      /\ \A j \in 1..(k - 1) : rs[k].similarity < rs[j].similarity
         IN  <<rs[k]>> \o SortBySimilarity_ascending(RemoveAt(rs, k))

RECURSIVE SortBySimilarity(_)
\* results.sort(key=lambda x: x['similarity'], reverse=True): stable, equal
\* keys keep the order they had.
SortBySimilarity(rs) ==
    IF rs = <<>> THEN <<>>
    ELSE LET k == CHOOSE k \in 1..Len(rs) :
                      /\ \A j \in 1..Len(rs) : rs[j].similarity <= rs[k].similarity
                      /\ \A j \in 1..(k - 1) : rs[j].similarity < rs[k].similarity
         IN  <<rs[k]>> \o SortBySimilarity(RemoveAt(rs, k))

RECURSIVE Score(_, _, _, _)
\* for chunk in chunks: if chunk_embedding: ... results.append({...})
Score(d, embedding, chunks, k) ==
    IF k > Len(chunks) THEN <<>>
    ELSE LET chunk == chunks[k]
             v == CHOOSE r \in d.videos : r.video_id = chunk.video_id
             rest == Score(d, embedding, chunks, k + 1)
         IN  IF TruthySeq(chunk.embedding)
             THEN <<[chunk_id |-> chunk.chunk_id, video_id |-> chunk.video_id,
                     title |-> v.title, author |-> v.author,
                     chunk_text |-> chunk.chunk_text, timestamp |-> chunk.timestamp,
                     end_timestamp |-> chunk.end_timestamp,
                     similarity |-> Dot(embedding, decode(Val(chunk.embedding)).value)]>>
                  \o rest
             ELSE rest

\* find_similar_chunks(embedding, limit): the rows of video_details with an
\* embedding that have their video, as the scan of video_details gives them.
find_similar_chunks(d, embedding, limit) ==
    LET chunks == OrderByChunkId({c \in d.details :
                      /\ c.embedding # None
                      /\ \E r \in d.videos : r.video_id = c.video_id})
        results == SortBySimilarity(Score(d, embedding, chunks, 1))
    IN  SubSeq(results, 1, IF limit < Len(results) THEN limit ELSE Len(results))

\* The stores this part starts from: V1 stored with up to MaxSimChunks
\* chunks, each with one of the vectors or without an embedding, and V2
\* stored after it or not.
SimChunk(e) ==
    [text |-> Some("c"), timestamp |-> Some(0), end_timestamp |-> Some(1),
     embedding |-> e]
SimilarDbs ==
    LET SimChunks == {SimChunk(Some(v)) : v \in SimVectors} \cup {SimChunk(None)}
        first == {store_video(EmptyDb, VideoData1([video_id |-> Some("V1")]),
                              Summary1, cl).db : cl \in SeqsUpTo(SimChunks, MaxSimChunks)}
    IN  first \cup {store_video(d, VideoData2([video_id |-> Some("V2")]), Summary2,
                                <<SimChunk(Some(<<One, Zero>>))>>).db : d \in first}

SimilarInit ==
    /\ db \in SimilarDbs
    /\ last = NoCall
    /\ ConcIdle /\ CodecIdle /\ ParseIdle

FindSimilarChunks ==
    \E embedding \in SimVectors, limit \in 1..MaxSimChunks :
        /\ last' = Read("find_similar_chunks", None, <<embedding, limit>>, "ok",
                        find_similar_chunks(db, embedding, limit))
        /\ UNCHANGED <<db, concVars, codecVars, parseVars>>

SimilarNext == FindSimilarChunks
SimilarSpec == SimilarInit /\ [][SimilarNext]_vars

\* The chunks with an embedding and the score of each against the query.
Embedded == {c \in db.details : c.embedding # None}
ScoreOf(c) == Dot(last.args[1], decode(Val(c.embedding)).value)
\* c comes before e in the ranking: a higher score, or the same score and
\* stored earlier.
Before(c, e) ==
    \/ ScoreOf(c) > ScoreOf(e)
    \/ ScoreOf(c) = ScoreOf(e) /\ c.chunk_id < e.chunk_id

C18_HandleReleased ==
    last.op \in {"store", "get_video", "get_video_chunks", "search_videos",
                 "search_chunks", "delete"}
        => last.conn # "open"

(***************************************************************************)
(* Reading back what was stored: the stores this part starts from hold V1  *)
(* with up to MaxOrderChunks chunks whose start times come in any order,   *)
(* equal ones included; V2 is never stored.                                *)
(***************************************************************************)
MaxOrderChunks == 3

TimedChunk(t) ==
    [text |-> Some("c"), timestamp |-> Some(t), end_timestamp |-> Some(t + 1)]
OrderDbs ==
    LET TimedChunks == {TimedChunk(t) : t \in 0..(MaxOrderChunks - 1)}
    IN  {store_video(EmptyDb, VideoData1([video_id |-> Some("V1")]), Summary1, cl).db :
            cl \in SeqsUpTo(TimedChunks, MaxOrderChunks)}

OrderInit ==
    /\ db \in OrderDbs
    /\ last = NoCall
    /\ ConcIdle /\ CodecIdle /\ ParseIdle

OrderNext == GetVideo \/ GetVideoChunks
OrderSpec == OrderInit /\ [][OrderNext]_vars

\* The chunks of a result start at non-decreasing times and are the stored
\* chunks of the video, each once.
ByStart(chunks, video_id) ==
    /\ \A p, q \in 1..Len(chunks) :
          p < q => Val(chunks[p].timestamp) <= Val(chunks[q].timestamp)
    /\ Len(chunks) = Cardinality(ChunksOf(db, video_id))
    /\ {chunks[k].chunk_id : k \in 1..Len(chunks)}
           = {c.chunk_id : c \in ChunksOf(db, video_id)}

\* C19: get_video and get_video_chunks return the video's chunks in
\* non-decreasing start-time order, whatever the order they were stored
\* in; get_video on an id with no video row returns None, it does not raise.
C19_ChunksByStart ==
    /\ last.op = "get_video_chunks" => ByStart(last.value, Val(last.video_id))
    /\ last.op = "get_video" =>
          /\ last.outcome = "ok"
          /\ IF \A r \in db.videos : r.video_id # Val(last.video_id)
             THEN last.value = None
             ELSE /\ last.value # None
                  /\ ByStart(Val(last.value).chunks, Val(last.video_id))

\* get_video returned three chunks of which the one stored last comes
\* first and the one stored first comes last.
C19_Witness ==
    /\ last.op = "get_video" /\ last.value # None
    /\ Len(Val(last.value).chunks) = 3
    /\ Val(last.value).chunks[1].chunk_id = 3
    /\ Val(last.value).chunks[3].chunk_id = 1
    /\ Val(Val(last.value).chunks[1].timestamp) < Val(Val(last.value).chunks[3].timestamp)

\* C20: store_video with metadata that lacks a video id (the key missing,
\* or its value empty) raises ValueError and leaves the store as it was: no
\* video row, chunk row or index entry is added, changed or removed.
C20_NoIdStep ==
    (last'.op = "store" /\ (last'.video_id = None \/ last'.video_id = Some("")))
        => (last'.outcome = "ValueError" /\ db' = db)
C20_NoIdRejected == [][C20_NoIdStep]_vars

\* A call with an empty video id was rejected on a store that holds a
\* video with chunks.
C20_Witness ==
    /\ last.op = "store" /\ last.video_id = Some("")
    /\ last.outcome = "ValueError"
    /\ db.videos # {} /\ db.details # {}

\* The chunk ids a store holds.
ChunkIds(d) == {c.chunk_id : c \in d.details}

\* C21: chunk ids are unique and never reused.  No two chunks share an id;
\* every chunk a committed store_video creates gets an id greater than
\* every id given before (db.seq, the sqlite_sequence row, is the largest
\* id ever committed, and never falls), also when the chunks that held the
\* highest ids are gone; within one call the ids rise in the order the
\* chunks were passed.
C21_IdsStep ==
    LET new == ChunkIds(db') \ ChunkIds(db)
    IN  /\ \A c, e \in db'.details : c.chunk_id = e.chunk_id => c = e
        /\ \A n \in ChunkIds(db) : n <= db.seq
        /\ db'.seq >= db.seq
        /\ \A n \in new : n > db.seq
        /\ (last'.op = "store" /\ last'.outcome = "ok" /\ db' # db) =>
              LET chunks == last'.args[1].chunks
                  IdOf(k) == db.seq + k
              IN  /\ new = {IdOf(k) : k \in 1..Len(chunks)}
                  /\ \A k \in 1..Len(chunks) :
                        \E c \in db'.details :
                            /\ c.chunk_id = IdOf(k)
                            /\ c.video_id = Val(last'.video_id)
                            /\ c.chunk_text = chunks[k].text
C21_ChunkIdsNeverReused == [][C21_IdsStep]_vars

\* A video was stored again after its chunks, which held the highest ids,
\* had been replaced or deleted: the store holds only ids above those.
C21_Witness ==
    /\ last.op = "store" /\ last.outcome = "ok"
    /\ Cardinality(db.details) = 2
    /\ \A n \in ChunkIds(db) : n > 2
    /\ db.seq = 4

(***************************************************************************)
(* Listing the stored videos: stores without chunks, deletions, the clock  *)
(* moving on by a second, and get_all_videos.                              *)
(***************************************************************************)
MaxClock == 2
MaxRecentRowid == 3

RecentCalls == {Call(VideoData1(id), Summary1, <<>>) : id \in IdKeys}

StoreRecent ==
    \E a \in RecentCalls :
        /\ NextRowid(db.videos) <= MaxRecentRowid
        /\ NextRowid(db.videos_fts) <= MaxRecentRowid
        /\ StoreStep(a)

\* A second passes.
Tick ==
    /\ db.clock < MaxClock
    /\ db' = [db EXCEPT !.clock = @ + 1]
    /\ UNCHANGED <<last, concVars, codecVars, parseVars>>

GetAllVideos ==
    \E limit \in 1..MaxLimit, offset \in 0..1 :
        /\ last' = Read("get_all_videos", None, <<limit, offset>>, "ok",
                        get_all_videos(db, limit, offset))
        /\ UNCHANGED <<db, concVars, codecVars, parseVars>>

RecentNext == StoreRecent \/ DeleteVideo \/ Tick \/ GetAllVideos
RecentSpec == Init /\ [][RecentNext]_vars

\* The videos row a listed row was read from.
RowOf(listed) == CHOOSE r \in db.videos : r.video_id = listed.video_id

\* What a listing is: the page [offset+1 .. offset+limit] of the videos by
\* processed_at descending, whichever way equal times fall.
C22_Page ==
    last.op = "get_all_videos" =>
        LET rows == last.value
            limit == last.args[1]
            offset == last.args[2]
            n == Cardinality(db.videos)
            left == IF n > offset THEN n - offset ELSE 0
            Newer(x) == {y \in db.videos : y.processed_at > x.processed_at}
            NotOlder(x) == {y \in db.videos : y.processed_at >= x.processed_at}
        IN  /\ Len(rows) = IF limit < left THEN limit ELSE left
            /\ \A p \in 1..Len(rows) :
                  /\ \E r \in db.videos : r.video_id = rows[p].video_id
                  /\ rows[p].processed_at = RowOf(rows[p]).processed_at
                  /\ rows[p].title = RowOf(rows[p]).title
                  /\ Cardinality(Newer(RowOf(rows[p]))) <= offset + p - 1
                  /\ offset + p - 1 < Cardinality(NotOlder(RowOf(rows[p])))
            /\ \A p, q \in 1..Len(rows) : p < q =>
                  /\ rows[p].video_id # rows[q].video_id
                  /\ rows[p].processed_at >= rows[q].processed_at
\* The place of a video in the whole listing.
Place(video_id) ==
    LET all == get_all_videos(db, Cardinality(db.videos), 0)
    IN  CHOOSE p \in 1..Len(all) : all[p].video_id = video_id

\* C22 as stated: get_all_videos(limit, offset) returns the videos by
\* processed_at descending, skipping offset and returning at most limit,
\* and a video that is stored again moves ahead of every video stored
\* before that: it is the first of the listing.
C22_RestoredMovesAhead ==
    /\ C22_Page
    /\ (last.op = "store" /\ last.outcome = "ok" /\ last.existed)
           => Place(Val(last.video_id)) = 1

\* A committed store gives the video's row the time of that store and
\* leaves the time of every other row.
C22_Stamp ==
    (last'.op = "store" /\ last'.outcome = "ok" /\ db'.clock = db.clock) =>
        \A r \in db'.videos :
            IF r.video_id = Val(last'.video_id) THEN r.processed_at = db.clock
            ELSE \E o \in db.videos :
                     o.video_id = r.video_id /\ o.processed_at = r.processed_at
\* The video of the latest store comes ahead of every video whose
\* processed_at is earlier.
C22_AheadOfEarlier ==
    (last.op = "store" /\ last.outcome = "ok") =>
        \A r, w \in db.videos :
            (r.video_id = Val(last.video_id) /\ w.processed_at < r.processed_at)
                => Place(r.video_id) < Place(w.video_id)
\* C22, amended: the page by processed_at descending; processed_at is the
\* second of the video's latest store, so a video stored again is listed
\* ahead of every video whose processed_at is earlier.
C22_ListedByProcessedAt ==
    [][C22_Stamp]_vars /\ []C22_Page /\ []C22_AheadOfEarlier

\* V1 was stored, then V2, then V1 again, each in a later second, and the
\* listing has V1 ahead of V2.
C22_Witness ==
    /\ last.op = "get_all_videos" /\ Len(last.value) = 2
    /\ last.value[1].video_id = "V1" /\ last.value[2].video_id = "V2"
    /\ RowOf(last.value[1]).rowid = 3 /\ RowOf(last.value[2]).rowid = 2
    /\ last.value[1].processed_at = 2 /\ last.value[2].processed_at = 1

\* What get_video and get_video_chunks give for the video of the latest
\* committed store; the chunks in the order of their ids, which is the
\* order they were passed in.
GotVideo == Val(get_video(db, Val(last.video_id))).video
GotChunks(with_embeddings) ==
    LET got == get_video_chunks(db, Val(last.video_id), with_embeddings)
        At(id) == CHOOSE k \in 1..Len(got) : got[k].chunk_id = id
        ids == OrderByChunkId(ChunksOf(db, Val(last.video_id)))
    IN  [k \in 1..Len(got) |-> got[At(ids[k].chunk_id)]]
\* The list passed under a key, when one was passed.
Passed(dict, key) == key \in DOMAIN dict /\ dict[key] # None

\* The embeddings come back as stored, for chunks stored with one, and
\* not at all when they were not asked for.
EmbeddingsRoundTrip ==
    LET chunks == last.args[1].chunks
    IN  /\ Len(GotChunks(TRUE)) = Len(chunks) /\ Len(GotChunks(FALSE)) = Len(chunks)
        /\ \A k \in 1..Len(chunks) :
              /\ GotChunks(TRUE)[k].embedding =
                     IF Passed(chunks[k], "embedding") /\ chunks[k].embedding # Some(<<>>)
                     THEN chunks[k].embedding ELSE None
              /\ "embedding" \notin DOMAIN GotChunks(FALSE)[k]
              /\ GotChunks(TRUE)[k].chunk_text = chunks[k].text

\* C23 as stated: after store_video commits, get_video returns the tags as
\* the list that was stored, get_video_chunks returns each chunk's entries
\* as the list that was stored, and with_embeddings decides whether the
\* stored vectors come back.
C23_RoundTrip ==
    (last.op = "store" /\ last.outcome = "ok") =>
        LET a == last.args[1]
        IN  /\ Passed(a.summary, "tags") => GotVideo.tags = a.summary.tags
            /\ \A k \in 1..Len(a.chunks) :
                  Passed(a.chunks[k], "entries") =>
                      /\ GotChunks(TRUE)[k].entries = a.chunks[k].entries
                      /\ GotChunks(FALSE)[k].entries = a.chunks[k].entries
            /\ EmbeddingsRoundTrip

\* C23, amended: a non-empty list of tags or of entries comes back as it
\* was stored; an empty list comes back as None, like a list never passed.
C23_NonEmptyRoundTrip ==
    (last.op = "store" /\ last.outcome = "ok") =>
        LET a == last.args[1]
            Back(list) == IF list = Some(<<>>) THEN None ELSE list
        IN  /\ GotVideo.tags =
                   IF Passed(a.summary, "tags") THEN Back(a.summary.tags) ELSE None
            /\ \A k \in 1..Len(a.chunks) :
                  LET e == IF Passed(a.chunks[k], "entries")
                           THEN Back(a.chunks[k].entries) ELSE None
                  IN  /\ GotChunks(TRUE)[k].entries = e
                      /\ GotChunks(FALSE)[k].entries = e
            /\ EmbeddingsRoundTrip

\* A video was stored with two tags and two chunks, one with entries and a
\* vector of two floats, the other with neither.
C23_Witness ==
    /\ last.op = "store" /\ last.outcome = "ok"
    /\ last.args[1].summary.tags = Some(<<"g1", "g2">>)
    /\ Len(last.args[1].chunks) = 2
    /\ GotChunks(TRUE)[1].entries # None
    /\ GotChunks(TRUE)[1].embedding # None /\ Len(Val(GotChunks(TRUE)[1].embedding)) = 2
    /\ GotChunks(TRUE)[2].embedding = None

(***************************************************************************)
(* Stores and deletions of two videos with different words, with one chunk *)
(* or none, over rowids up to MaxRecentRowid.                              *)
(***************************************************************************)
FrameCalls ==
    {Call(VideoData1(id), Summary1, cl) : id \in IdKeys, cl \in {<<>>, <<Chunk1>>, <<Chunk3>>}}
    \cup {Call(VideoData2(id), Summary2, cl) : id \in IdKeys, cl \in {<<>>, <<Chunk2>>}}

StoreFrame ==
    \E a \in FrameCalls :
        /\ NextRowid(db.videos) <= MaxRecentRowid
        /\ NextRowid(db.videos_fts) <= MaxRecentRowid
        /\ db.seq + Len(a.chunks) <= MaxChunkId
        /\ StoreStep(a)

FrameNext == StoreFrame \/ DeleteVideo
FrameSpec == Init /\ [][FrameNext]_vars

\* The videos and the chunks of a store whose text has the word q.
RowsWith(d, q) ==
    {r \in d.videos :
        q \in WordsOf(r.title) \cup WordsOf(r.summary) \cup WordsOf(r.tldr)
                \cup TagWords(r.tags) \cup WordsOf(r.full_transcript)}
DetailsWith(d, q) == {c \in d.details : q \in WordsOf(c.chunk_text)}
\* q matches the video w and nothing else, before the call and after it.
OnlyVideo(q, w) ==
    /\ RowsWith(db, q) # {} /\ RowsWith(db', q) # {}
    /\ \A r \in RowsWith(db, q) \cup RowsWith(db', q) : r.video_id = w
OnlyChunksOf(q, w) ==
    /\ DetailsWith(db, q) # {} /\ DetailsWith(db', q) # {}
    /\ \A c \in DetailsWith(db, q) \cup DetailsWith(db', q) : c.video_id = w

\* The rows of w and what the reads by id return are as before.
TablesFrame(w) ==
    /\ SelectVideo(db', w) = SelectVideo(db, w)
    /\ ChunksOf(db', w) = ChunksOf(db, w)
    /\ get_video(db', w) = get_video(db, w)
    /\ \A b \in BOOLEAN : get_video_chunks(db', w, b) = get_video_chunks(db, w, b)
\* The searches that match only w return what they returned before.
SearchFrame(w) ==
    /\ \A q \in VideoQueries \ {""}, limit \in SearchLimits :
          OnlyVideo(q, w) => search_videos(db', q, limit) = search_videos(db, q, limit)
    /\ \A q \in ChunkQueries \ {""}, limit \in SearchLimits :
          OnlyChunksOf(q, w) => search_chunks(db', q, limit) = search_chunks(db, q, limit)

\* The step is a store_video or delete_video call for a video other than w.
CallForOther(w) ==
    /\ last'.op \in {"store", "delete"}
    /\ last'.video_id # Some(w)

C24_TablesStep == \A w \in VideoIds : CallForOther(w) => TablesFrame(w)
C24_FrameStep ==
    \A w \in VideoIds : CallForOther(w) => TablesFrame(w) /\ SearchFrame(w)
C24_TablesOnly == [][C24_TablesStep]_vars

\* C24: frame of store and delete.  store_video(V, ...), whether it
\* inserts, replaces or rolls back, and delete_video(V) leave every other
\* video W as it was: W's row, W's chunks with their ids, and what
\* get_video(W), get_video_chunks(W) and the searches that match only W
\* return.
C24_OtherVideosUntouched == [][C24_FrameStep]_vars

(***************************************************************************)
(* Concurrent writers.  Two connections, A and B, each run one call for    *)
(* the video V1, one statement per step.  A runs store_video; B runs       *)
(* store_video or delete_video.  db is the committed database.  SQLite     *)
(* allows one write transaction at a time: the first INSERT or DELETE of a *)
(* call opens it (sqlite3 issues BEGIN before it, the SELECT runs before), *)
(* and while it is open a write of the other connection waits and, when    *)
(* the wait times out, raises OperationalError (database is locked).       *)
(***************************************************************************)
Conns == {"A", "B"}
ConcId == "V1"

CallOld == Call(VideoData2([video_id |-> Some(ConcId)]), Summary2, <<Chunk1>>)
CallA == Call(VideoData1([video_id |-> Some(ConcId)]), Summary1, <<Chunk1, Chunk2>>)
CallsB ==
    {Call(VideoData2([video_id |-> Some(ConcId)]), Summary2, <<Chunk2>>),
     Call(VideoData2([video_id |-> Some(ConcId)]), Summary2, <<Chunk2, Chunk3>>)}

\* A connection about to run op with the arguments call.
Begin(op, call) ==
    [op |-> op, call |-> call,
     pc |-> IF op = "store" THEN "select" ELSE "delete_details",
     existing |-> FALSE, k |-> 1, outcome |-> "", result |-> FALSE]

ConcInit ==
    /\ db \in {EmptyDb,
               store_video(EmptyDb, CallOld.video_data, CallOld.summary, CallOld.chunks).db}
    /\ last = NoCall
    /\ \E b \in {Begin("store", call) : call \in CallsB} \cup {Begin("delete", CallOld)} :
           conns = [c \in Conns |-> IF c = "A" THEN Begin("store", CallA) ELSE b]
    /\ txn = NoTxn
    /\ CodecIdle /\ ParseIdle

\* The write lock: free, or held by c already.
CanWrite_unlocked(c) == TRUE
CanWrite(c) == txn.owner \in {None, Some(c)}
\* The database a statement of c works on.
Base(c) == IF txn.owner = None THEN db ELSE txn.work

Go(c, to) == [conns EXCEPT ![c].pc = to]
\* The call of c ends with an exception: what it wrote is rolled back.
Raise(c, error) ==
    /\ conns' = [conns EXCEPT ![c].pc = "done", ![c].outcome = error]
    /\ txn' = IF txn.owner = Some(c) THEN NoTxn ELSE txn
    /\ UNCHANGED db
ConcFrame == UNCHANGED <<last, codecVars, parseVars>>

\* cursor.execute("SELECT video_id FROM videos WHERE video_id = ?")
Select ==
    \E c \in Conns :
        /\ conns[c].pc = "select"
        /\ LET existing == SelectVideo(db, ConcId) # {}
           IN  conns' = [conns EXCEPT ![c].existing = existing,
                            ![c].pc = IF existing THEN "delete_details" ELSE "insert_video"]
        /\ UNCHANGED <<db, txn>> /\ ConcFrame

\* cursor.execute("DELETE FROM video_details WHERE video_id = ?")
DeleteDetailsStmt ==
    \E c \in Conns :
        /\ conns[c].pc = "delete_details" /\ CanWrite(c)
        /\ txn' = [owner |-> Some(c), work |-> DeleteDetails(Base(c), ConcId)]
        /\ conns' = Go(c, "delete_video")
        /\ UNCHANGED db /\ ConcFrame

\* cursor.execute("DELETE FROM videos WHERE video_id = ?"); delete_video
\* keeps cursor.rowcount.
DeleteVideosStmt ==
    \E c \in Conns :
        /\ conns[c].pc = "delete_video" /\ CanWrite(c)
        /\ LET del == DeleteVideos(Base(c), ConcId)
           IN  /\ txn' = [owner |-> Some(c), work |-> del.db]
               /\ conns' = IF conns[c].op = "store" THEN Go(c, "insert_video")
                           ELSE [conns EXCEPT ![c].pc = "commit",
                                              ![c].result = del.rowcount > 0]
        /\ UNCHANGED db /\ ConcFrame

\* cursor.execute(INSERT INTO videos ...)
InsertVideoStmt ==
    \E c \in Conns :
        /\ conns[c].pc = "insert_video" /\ CanWrite(c)
        /\ LET a == conns[c].call
               ins == InsertVideo(Base(c), VideoValues(ConcId, Val(a.video_data.metadata),
                                      a.video_data.transcript, a.summary))
           IN  IF ins.ok
               THEN /\ txn' = [owner |-> Some(c), work |-> ins.db]
                    /\ conns' = Go(c, IF conns[c].existing THEN "rebuild" ELSE "insert_chunk")
                    /\ UNCHANGED db
               ELSE Raise(c, "IntegrityError")
        /\ ConcFrame

\* cursor.execute("INSERT INTO videos_fts(videos_fts) VALUES('rebuild')")
RebuildStmt ==
    \E c \in Conns :
        /\ conns[c].pc = "rebuild" /\ CanWrite(c)
        /\ txn' = [owner |-> Some(c), work |-> RebuildVideosFts(Base(c))]
        /\ conns' = Go(c, "insert_chunk")
        /\ UNCHANGED db /\ ConcFrame

\* for chunk in chunks: cursor.execute(INSERT INTO video_details ...)
InsertChunkStmt ==
    \E c \in Conns :
        /\ conns[c].pc = "insert_chunk" /\ CanWrite(c)
        /\ conns[c].k <= Len(conns[c].call.chunks)
        /\ LET r == InsertDetail(Base(c), ChunkValues(ConcId, conns[c].call.chunks[conns[c].k]))
           IN  IF r.ok
               THEN /\ txn' = [owner |-> Some(c), work |-> r.db]
                    /\ conns' = [conns EXCEPT ![c].k = @ + 1]
                    /\ UNCHANGED db
               ELSE Raise(c, "IntegrityError")
        /\ ConcFrame

\* The with block of store_video is left, or delete_video calls
\* conn.commit(): what the connection wrote becomes the committed database.
Commit ==
    \E c \in Conns :
        /\ \/ conns[c].pc = "commit"
           \/ conns[c].pc = "insert_chunk" /\ conns[c].k > Len(conns[c].call.chunks)
        /\ db' = IF txn.owner = Some(c) THEN txn.work ELSE db
        /\ txn' = IF txn.owner = Some(c) THEN NoTxn ELSE txn
        /\ conns' = [conns EXCEPT ![c].pc = "done", ![c].outcome = "ok"]
        /\ ConcFrame

\* A write of c finds the database locked by the other connection until
\* the busy timeout ends: sqlite3.OperationalError.
Locked ==
    \E c \in Conns :
        /\ conns[c].pc \in {"delete_details", "delete_video", "insert_video",
                            "rebuild", "insert_chunk"}
        /\ ~(conns[c].pc = "insert_chunk" /\ conns[c].k > Len(conns[c].call.chunks))
        /\ ~CanWrite(c)
        /\ Raise(c, "OperationalError")
        /\ ConcFrame

ConcNext ==
    \/ Select \/ DeleteDetailsStmt \/ DeleteVideosStmt \/ InsertVideoStmt
    \/ RebuildStmt \/ InsertChunkStmt \/ Commit \/ Locked
ConcSpec == ConcInit /\ [][ConcNext]_vars

\* What the committed database holds for V1: the values of its row and of
\* its chunks in the order of their ids; and what a call alone leaves.
Held(d) ==
    [rows |-> {[c \in DOMAIN r \ {"rowid", "processed_at"} |-> r[c]] :
                  r \in SelectVideo(d, ConcId)},
     chunks |-> LET cs == OrderByChunkId(ChunksOf(d, ConcId))
                IN  [k \in 1..Len(cs) |->
                        [c \in DOMAIN cs[k] \ {"chunk_id"} |-> cs[k][c]]]]
LeftBy(a) ==
    [rows |-> {VideoValues(ConcId, Val(a.video_data.metadata),
                           a.video_data.transcript, a.summary)},
     chunks |-> [k \in 1..Len(a.chunks) |-> ChunkValues(ConcId, a.chunks[k])]]
Nothing == [rows |-> {}, chunks |-> <<>>]

\* At most one row, and row and chunks all of one store call, or none.
C25_OneCall ==
    /\ Cardinality(SelectVideo(db, ConcId)) <= 1
    /\ \/ Held(db) = Nothing
       \/ Held(db) = LeftBy(CallOld)
       \/ \E c \in Conns : conns[c].op = "store" /\ Held(db) = LeftBy(conns[c].call)
\* A call commits all of its rows or none: the committed database changes
\* only when a call ends well, and then holds all that call wrote; a call
\* that raises leaves it as it was.
C25_AllOrNone ==
    /\ db' # db =>
          \E c \in Conns :
              /\ conns[c].pc # "done" /\ conns'[c].pc = "done" /\ conns'[c].outcome = "ok"
              /\ Held(db') = IF conns[c].op = "store" THEN LeftBy(conns[c].call) ELSE Nothing
    /\ \A c \in Conns :
          (conns[c].pc # "done" /\ conns'[c].pc = "done" /\ conns'[c].outcome # "ok")
              => db' = db

\* C25: concurrent writers never mix data.  Two calls for the same video
\* on two connections, interleaved statement by statement, each commit
\* all of their rows or none; every committed state has at most one row
\* for the video and chunks of one single store_video call.
C25_WritersNeverMix == []C25_OneCall /\ [][C25_AllOrNone]_vars

\* Both calls are over: both read the store before either wrote, A
\* committed its row and its two chunks over the old ones, and B, which
\* had seen the old video too, replaced them with its own afterwards.
C25_Witness ==
    /\ \A c \in Conns : conns[c].pc = "done" /\ conns[c].outcome = "ok"
    /\ conns["A"].existing /\ conns["B"].existing /\ conns["B"].op = "store"
    /\ Held(db) = LeftBy(conns["B"].call)
    /\ db.seq = 4

====
